---- MODULE Spec2Model ----
(***************************************************************************)
(* ClusterSecret operator: the reconciliation handlers of src/handlers.py  *)
(* (on_delete, on_field_match_namespace, on_field_data, create_fn,         *)
(* namespace_watcher, startup_fn) over the cluster object store, the       *)
(* in-memory cache csecs_cache and the replicas in each namespace.         *)
(*                                                                         *)
(* create_fn, namespace_watcher and startup_fn are `async def` without an  *)
(* await: they run one at a time on the event loop (variable loop).        *)
(* on_delete, on_field_match_namespace and on_field_data are plain `def`:  *)
(* kopf runs them in worker threads (variable thr), at most one handler    *)
(* per resource identity, and they interleave with the event loop at      *)
(* every blocking call.                                                    *)
(***************************************************************************)
EXTENDS Integers, FiniteSets, Sequences, TLC

VARIABLES
    liveNs,       \* namespaces that exist in the cluster
    pendingNs,    \* created namespaces whose create event is not yet handled
    nsStatus,     \* per namespace: the result kopf stored for namespace_watcher
    csecs,        \* the ClusterSecret resources in the object store, by uid
    secrets,      \* the replicas: Secret objects by <<namespace, name>>
    csecs_cache,  \* handlers.py:13, the in-memory cache (a set of records)
    loop,         \* the async handler in flight on the event loop
    thr,          \* per uid: the threaded handler in flight
    last,         \* the handler invocation that ended in the last step
    started,      \* startup_fn has run in this process
    events        \* handler invocations begun so far

vars == <<liveNs, pendingNs, nsStatus, csecs, secrets, csecs_cache, loop, thr,
          last, started, events>>

----------------------------------------------------------------------------
(* Bounds and input sets *)

MaxEvents == 3

Namespaces == {"a", "b", "c"}
InitialNamespaces == {{"a", "b"}}
UIDs == {"u1", "u2"}
Payloads == {"p1", "p2"}
\* match specifications: lists of exact namespace names
MatchSpecs == {{"a", "b"}, {"b", "c"}, {"c"}}

NameOf(u) == IF u = "u1" THEN "s1" ELSE "s2"
OriginNs(u) == "a"
TypeOf(u) == IF u = "u1" THEN "unset" ELSE "kubernetes.io/tls"
Names == {NameOf(u) : u \in UIDs}
\* uids are issued in this order
UidOrder(u) == IF u = "u1" THEN 1 ELSE 2
InitialPayloads == {"p1"}
\* the order in which the namespace list of the cluster names the namespaces
NsOrder(n) == IF n = "a" THEN 1 ELSE IF n = "b" THEN 2 ELSE 3

----------------------------------------------------------------------------
(* Values *)

Idle == [kind |-> "none", pc |-> "idle"]
NoLast == [kind |-> "none", pc |-> "none"]
NoSecret == [exists |-> FALSE, data |-> "none", type |-> "none"]
NoCsec == [state |-> "new", matchNamespace |-> {}, data |-> "none",
           hasStatus |-> FALSE, syncedns |-> {}]

\* A value of the record's `namespace` attribute: a string or a list.
Str(n) == [isList |-> FALSE, val |-> {n}]
List(S) == [isList |-> TRUE, val |-> S]

\* The body kopf hands to a handler: the resource as stored, with its status.
\* body.get('status', {}).get('create_fn', {}).get('syncedns', []) is syncedns.
BodyOf(u) ==
    [uid |-> u, name |-> NameOf(u), namespace |-> OriginNs(u),
     matchNamespace |-> csecs[u].matchNamespace, data |-> csecs[u].data,
     type |-> TypeOf(u), syncedns |-> csecs[u].syncedns]

----------------------------------------------------------------------------
(* Collaborators (kubernetes_utils, cache, models) *)

\* Namespace Matcher: the match specification against the live namespaces.
get_ns_list(body, live) == {n \in live : n \in body.matchNamespace}

\* body.get('type', 'Opaque')
SecretType(body) == IF body.type = "unset" THEN "Opaque" ELSE body.type

\* Secret Synchronizer upsert: replace the replica if present, else create.
sync_secret(sec, ns, body) ==
    [sec EXCEPT ![<<ns, body.name>>] =
        [exists |-> TRUE, data |-> body.data, type |-> SecretType(body)]]

\* Secret Synchronizer delete: an absent replica is success.
delete_secret(sec, ns, name) == [sec EXCEPT ![<<ns, name>>] = NoSecret]

secret_exists(sec, ns, name) == sec[<<ns, name>>].exists

\* The V1Secret on_field_data builds, replaced or created in ns.
ReplaceOrCreate(sec, ns, name, data, type) ==
    IF secret_exists(sec, ns, name)
    THEN [sec EXCEPT ![<<ns, name>>] = [exists |-> TRUE, data |-> data, type |-> type]]
    ELSE [sec EXCEPT ![<<ns, name>>] = [exists |-> TRUE, data |-> data, type |-> type]]

\* BaseClusterSecret: what a cache record holds of the resource.
BaseClusterSecret(uid, name, namespace, body, synced_namespace) ==
    [uid |-> uid, name |-> name, namespace |-> namespace,
     body |-> [name |-> body.name, matchNamespace |-> body.matchNamespace,
               data |-> body.data, type |-> body.type],
     synced_namespace |-> synced_namespace]

\* Cache Store
set_cluster_secret(cache, rec) == {r \in cache : r.uid # rec.uid} \cup {rec}
has_cluster_secret(cache, uid) == \E r \in cache : r.uid = uid
remove_cluster_secret(cache, uid) == {r \in cache : r.uid # uid}
all_cluster_secret(cache) == cache

\* patch_clustersecret_status with {'create_fn': {'syncedns': synced}}
patch_clustersecret_status(cs, uid, synced) ==
    [cs EXCEPT ![uid].hasStatus = TRUE, ![uid].syncedns = synced]

----------------------------------------------------------------------------
(* Initial state: an empty cluster, the process started, startup_fn due *)

Init ==
    /\ liveNs \in InitialNamespaces
    /\ pendingNs = {}
    /\ nsStatus = [n \in Namespaces |-> [set |-> FALSE, syncedns |-> {}]]
    /\ csecs = [u \in UIDs |-> NoCsec]
    /\ secrets = [k \in Namespaces \X Names |-> NoSecret]
    /\ csecs_cache = {}
    /\ loop = Idle
    /\ thr = [u \in UIDs |-> Idle]
    /\ last = NoLast
    /\ started = FALSE
    /\ events = 0

\* What the cluster and the cache hold of one resource: its replicas, its
\* cache records and its persisted status.
Snapshot(u) ==
    [replicas |-> [n \in Namespaces |-> secrets[<<n, NameOf(u)>>]],
     cache |-> {r \in csecs_cache : r.uid = u},
     hasStatus |-> csecs[u].hasStatus,
     syncedns |-> csecs[u].syncedns]

\* namespace_watcher is neither in flight nor due.
NoWatcher == loop.kind # "nswatch" /\ pendingNs = {}

\* kopf delivers to the handler the event it has just completed, with the
\* same body and nothing else having happened since.
Redelivery(kind, u, body) ==
    /\ last.kind = kind /\ last.pc = "done" /\ last.uid = u
    /\ last.quiet /\ last.live = liveNs /\ NoWatcher
    /\ last.body.matchNamespace = body.matchNamespace
    /\ last.body.data = body.data

UidFree(u) == thr[u].pc = "idle" /\ ~(loop.kind = "create" /\ loop.uid = u)
CanBegin == started /\ events < MaxEvents
NoneInFlight == loop.pc = "idle" /\ \A u \in UIDs : thr[u].pc = "idle"
Quiescent == started /\ loop.pc = "idle" /\ \A u \in UIDs : thr[u].pc = "idle"

----------------------------------------------------------------------------
(* startup_fn, handlers.py:219-247 *)

StartupRecord(u) ==
    BaseClusterSecret(u, NameOf(u), Str(OriginNs(u)), BodyOf(u), {})

StartupFn ==
    /\ ~started
    /\ started' = TRUE
    /\ csecs_cache' = {StartupRecord(u) :
                            u \in {x \in UIDs : csecs[x].state \in {"live", "deleting"}}}
    /\ last' = [kind |-> "startup", pc |-> "done"]
    /\ UNCHANGED <<liveNs, pendingNs, nsStatus, csecs, secrets, loop, thr, events>>

\* The operator process is restarted: the in-memory cache is lost.
Restart ==
    /\ Quiescent
    /\ events < MaxEvents
    /\ events' = events + 1
    /\ started' = FALSE
    /\ csecs_cache' = {}
    /\ last' = NoLast
    /\ UNCHANGED <<liveNs, pendingNs, nsStatus, csecs, secrets, loop, thr>>

----------------------------------------------------------------------------
(* create_fn, handlers.py:150-183 *)

\* create_fn as it would be if it synced the namespaces recorded in the status
\* instead of the ones get_ns_list returns.
CreateHandlerFromStatus(u, body, live) ==
    [kind |-> "create", pc |-> "sync", uid |-> u, body |-> body,
     live |-> live, known |-> FALSE,
     quiet |-> NoWatcher, pre |-> Snapshot(u),
     again |-> Redelivery("create", u, body),
     matchedns |-> body.syncedns, todo |-> body.syncedns,
     namespace |-> body.namespace, ups |-> {}, dels |-> {}]

CreateHandler(u, body, live) ==
    [kind |-> "create", pc |-> "sync", uid |-> u, body |-> body,
     live |-> live, known |-> FALSE,
     quiet |-> NoWatcher, pre |-> Snapshot(u),
     again |-> Redelivery("create", u, body),
     matchedns |-> get_ns_list(body, live), todo |-> get_ns_list(body, live),
     namespace |-> body.namespace, ups |-> {}, dels |-> {}]

\* A new ClusterSecret is created; kopf calls create_fn.
CreateEvent(u, m, d) ==
    /\ CanBegin /\ loop.pc = "idle" /\ UidFree(u)
    /\ csecs[u].state = "new"
    /\ \A x \in UIDs : UidOrder(x) < UidOrder(u) => csecs[x].state # "new"
    /\ csecs' = [csecs EXCEPT ![u] = [NoCsec EXCEPT !.state = "live",
                                       !.matchNamespace = m, !.data = d]]
    /\ loop' = CreateHandler(u, BodyOf(u)', liveNs)
    /\ events' = events + 1
    /\ last' = NoLast
    /\ UNCHANGED <<liveNs, pendingNs, nsStatus, secrets, csecs_cache, thr, started>>

\* kopf calls create_fn for an existing ClusterSecret (resume, re-delivery).
ResumeEvent(u) ==
    /\ CanBegin /\ loop.pc = "idle" /\ UidFree(u)
    /\ csecs[u].state = "live"
    /\ loop' = CreateHandler(u, BodyOf(u), liveNs)
    /\ events' = events + 1
    /\ last' = NoLast
    /\ UNCHANGED <<liveNs, pendingNs, nsStatus, csecs, secrets, csecs_cache, thr, started>>

\* sync_secret raises in the loop of lines 165-166: the handler ends in error.
CreateFail ==
    /\ loop.kind = "create" /\ loop.pc = "sync" /\ loop.todo # {}
    /\ loop' = Idle
    /\ last' = [loop EXCEPT !.pc = "failed"]
    /\ UNCHANGED <<liveNs, pendingNs, nsStatus, csecs, secrets, csecs_cache, thr,
                   started, events>>

\* lines 165-166: one iteration, in the order of the list get_ns_list
\* returned; the loop variable shadows `namespace`.
CreateSync(ns) ==
    /\ loop.kind = "create" /\ loop.pc = "sync"
    /\ ns \in loop.todo
    /\ \A x \in loop.todo : NsOrder(ns) <= NsOrder(x)
    /\ secrets' = sync_secret(secrets, ns, loop.body)
    /\ loop' = [loop EXCEPT !.todo = @ \ {ns}, !.namespace = ns, !.ups = @ \cup {ns}]
    /\ last' = NoLast
    /\ UNCHANGED <<liveNs, pendingNs, nsStatus, csecs, csecs_cache, thr, started, events>>

\* lines 168-180 as they would be if the record were added to the cache
\* without replacing the one held for the uid.
CreateCacheAppend ==
    /\ loop.kind = "create" /\ loop.pc = "sync" /\ loop.todo = {}
    /\ csecs_cache' = csecs_cache \cup
            {BaseClusterSecret(loop.uid, loop.body.name, Str(loop.namespace),
                               loop.body, loop.matchedns)}
    /\ loop' = [loop EXCEPT !.pc = "return",
                            !.known = has_cluster_secret(csecs_cache, loop.uid)]
    /\ last' = NoLast
    /\ UNCHANGED <<liveNs, pendingNs, nsStatus, csecs, secrets, thr, started, events>>

\* lines 168-180
CreateCache ==
    /\ loop.kind = "create" /\ loop.pc = "sync" /\ loop.todo = {}
    /\ csecs_cache' = set_cluster_secret(csecs_cache,
            BaseClusterSecret(loop.uid, loop.body.name, Str(loop.namespace),
                              loop.body, loop.matchedns))
    /\ loop' = [loop EXCEPT !.pc = "return",
                            !.known = has_cluster_secret(csecs_cache, loop.uid)]
    /\ last' = NoLast
    /\ UNCHANGED <<liveNs, pendingNs, nsStatus, csecs, secrets, thr, started, events>>

\* line 183: kopf stores the result as status.create_fn of the resource.
CreateReturn ==
    /\ loop.kind = "create" /\ loop.pc = "return"
    /\ csecs' = patch_clustersecret_status(csecs, loop.uid, loop.matchedns)
    /\ loop' = Idle
    /\ last' = [loop EXCEPT !.pc = "done"]
    /\ UNCHANGED <<liveNs, pendingNs, nsStatus, secrets, csecs_cache, thr, started, events>>

----------------------------------------------------------------------------
(* on_field_match_namespace, handlers.py:51-105 *)

\* lines 70-74 as they would be with a teardown and rebuild instead of the
\* two set differences: every recorded namespace deleted, every target synced.
MatchHandlerRebuild(u, body, live) ==
    [kind |-> "match", pc |-> "add", uid |-> u, body |-> body,
     live |-> live, known |-> FALSE,
     quiet |-> NoWatcher, pre |-> Snapshot(u),
     again |-> Redelivery("match", u, body),
     syncedns |-> body.syncedns,
     updated_matched |-> get_ns_list(body, live),
     to_add |-> get_ns_list(body, live),
     to_remove |-> body.syncedns,
     ups |-> {}, dels |-> {}]

MatchHandler(u, body, live) ==
    [kind |-> "match", pc |-> "add", uid |-> u, body |-> body,
     live |-> live, known |-> FALSE,
     quiet |-> NoWatcher, pre |-> Snapshot(u),
     again |-> Redelivery("match", u, body),
     syncedns |-> body.syncedns,
     updated_matched |-> get_ns_list(body, live),
     to_add |-> get_ns_list(body, live) \ body.syncedns,
     to_remove |-> body.syncedns \ get_ns_list(body, live),
     ups |-> {}, dels |-> {}]

\* lines 62-66 as they would be without the test of old: the handler goes on
\* to its end and patches the status.
MatchFirstProceeds(u) ==
    /\ CanBegin /\ UidFree(u)
    /\ csecs[u].state = "live"
    /\ csecs' = patch_clustersecret_status(csecs, u, get_ns_list(BodyOf(u), liveNs))
    /\ events' = events + 1
    /\ last' = [MatchHandler(u, BodyOf(u), liveNs) EXCEPT !.pc = "first"]
    /\ UNCHANGED <<liveNs, pendingNs, nsStatus, secrets, csecs_cache, loop, thr, started>>

\* lines 62-66: kopf calls the handler with old = None (the field is seen for
\* the first time); the handler returns at once.
MatchFirst(u) ==
    /\ CanBegin /\ UidFree(u)
    /\ csecs[u].state = "live"
    /\ events' = events + 1
    /\ last' = [MatchHandler(u, BodyOf(u), liveNs) EXCEPT !.pc = "first"]
    /\ UNCHANGED <<liveNs, pendingNs, nsStatus, csecs, secrets, csecs_cache, loop, thr,
                   started>>

\* matchNamespace of an existing ClusterSecret is changed; lines 70-74.
MatchEvent(u, m) ==
    /\ CanBegin /\ UidFree(u)
    /\ csecs[u].state = "live"
    /\ m # csecs[u].matchNamespace
    /\ csecs' = [csecs EXCEPT ![u].matchNamespace = m]
    /\ thr' = [thr EXCEPT ![u] = MatchHandler(u, BodyOf(u)', liveNs)]
    /\ events' = events + 1
    /\ last' = NoLast
    /\ UNCHANGED <<liveNs, pendingNs, nsStatus, secrets, csecs_cache, loop, started>>

\* kopf calls the handler again for the same change (re-delivery).
MatchRedeliver(u) ==
    /\ CanBegin /\ UidFree(u)
    /\ csecs[u].state = "live"
    /\ thr' = [thr EXCEPT ![u] = MatchHandler(u, BodyOf(u), liveNs)]
    /\ events' = events + 1
    /\ last' = NoLast
    /\ UNCHANGED <<liveNs, pendingNs, nsStatus, csecs, secrets, csecs_cache, loop, started>>

\* lines 78-105 as they would be if the error of a write were caught and the
\* handler went on without it.
MatchFailSwallowed(u) ==
    /\ thr[u].kind = "match"
    /\ \/ /\ thr[u].pc = "add" /\ thr[u].to_add \cup thr[u].to_remove # {}
          /\ thr' = [thr EXCEPT ![u].to_add = {}, ![u].to_remove = {}]
          /\ last' = NoLast
       \/ /\ thr[u].pc = "patch"
          /\ thr' = [thr EXCEPT ![u] = Idle]
          /\ last' = [thr[u] EXCEPT !.pc = "done"]
    /\ UNCHANGED <<liveNs, pendingNs, nsStatus, csecs, secrets, csecs_cache, loop,
                   started, events>>

\* sync_secret, delete_secret or patch_clustersecret_status raises.
MatchFail(u) ==
    /\ thr[u].kind = "match"
    /\ \/ thr[u].pc = "add" /\ thr[u].to_add \cup thr[u].to_remove # {}
       \/ thr[u].pc = "patch"
    /\ thr' = [thr EXCEPT ![u] = Idle]
    /\ last' = [thr[u] EXCEPT !.pc = "failed"]
    /\ UNCHANGED <<liveNs, pendingNs, nsStatus, csecs, secrets, csecs_cache, loop,
                   started, events>>

\* lines 78-79 as they would be if each synced namespace were recorded in the
\* status at once.
MatchAddRecording(u, ns) ==
    /\ thr[u].kind = "match" /\ thr[u].pc = "add"
    /\ ns \in thr[u].to_add
    /\ secrets' = sync_secret(secrets, ns, thr[u].body)
    /\ csecs' = patch_clustersecret_status(csecs, u, csecs[u].syncedns \cup {ns})
    /\ thr' = [thr EXCEPT ![u].to_add = @ \ {ns}, ![u].ups = @ \cup {ns}]
    /\ last' = NoLast
    /\ UNCHANGED <<liveNs, pendingNs, nsStatus, csecs_cache, loop, started, events>>

\* lines 78-79
MatchAdd(u, ns) ==
    /\ thr[u].kind = "match" /\ thr[u].pc = "add"
    /\ ns \in thr[u].to_add
    /\ secrets' = sync_secret(secrets, ns, thr[u].body)
    /\ thr' = [thr EXCEPT ![u].to_add = @ \ {ns}, ![u].ups = @ \cup {ns}]
    /\ last' = NoLast
    /\ UNCHANGED <<liveNs, pendingNs, nsStatus, csecs, csecs_cache, loop, started, events>>

\* lines 81-82
MatchRemove(u, ns) ==
    /\ thr[u].kind = "match" /\ thr[u].pc = "add"
    /\ thr[u].to_add = {}
    /\ ns \in thr[u].to_remove
    /\ secrets' = delete_secret(secrets, ns, thr[u].body.name)
    /\ thr' = [thr EXCEPT ![u].to_remove = @ \ {ns}, ![u].dels = @ \cup {ns}]
    /\ last' = NoLast
    /\ UNCHANGED <<liveNs, pendingNs, nsStatus, csecs, csecs_cache, loop, started, events>>

\* lines 84-95 as they would be if the handler stored nothing for a uid the
\* cache does not know.
MatchCacheKnownOnly(u) ==
    /\ thr[u].kind = "match" /\ thr[u].pc = "add"
    /\ thr[u].to_add = {} /\ thr[u].to_remove = {}
    /\ csecs_cache' = IF has_cluster_secret(csecs_cache, u)
                      THEN set_cluster_secret(csecs_cache,
                              BaseClusterSecret(u, thr[u].body.name,
                                                Str(thr[u].body.namespace),
                                                thr[u].body, thr[u].updated_matched))
                      ELSE csecs_cache
    /\ thr' = [thr EXCEPT ![u].pc = "patch",
                          ![u].known = has_cluster_secret(csecs_cache, u)]
    /\ last' = NoLast
    /\ UNCHANGED <<liveNs, pendingNs, nsStatus, csecs, secrets, loop, started, events>>

\* lines 84-95
MatchCache(u) ==
    /\ thr[u].kind = "match" /\ thr[u].pc = "add"
    /\ thr[u].to_add = {} /\ thr[u].to_remove = {}
    /\ csecs_cache' = set_cluster_secret(csecs_cache,
            BaseClusterSecret(u, thr[u].body.name, Str(thr[u].body.namespace),
                              thr[u].body, thr[u].updated_matched))
    /\ thr' = [thr EXCEPT ![u].pc = "patch",
                          ![u].known = has_cluster_secret(csecs_cache, u)]
    /\ last' = NoLast
    /\ UNCHANGED <<liveNs, pendingNs, nsStatus, csecs, secrets, loop, started, events>>

\* lines 97-105
MatchPatch(u) ==
    /\ thr[u].kind = "match" /\ thr[u].pc = "patch"
    /\ csecs' = patch_clustersecret_status(csecs, u, thr[u].updated_matched)
    /\ thr' = [thr EXCEPT ![u] = Idle]
    /\ last' = [thr[u] EXCEPT !.pc = "done"]
    /\ UNCHANGED <<liveNs, pendingNs, nsStatus, secrets, csecs_cache, loop, started, events>>

----------------------------------------------------------------------------
(* on_field_data, handlers.py:108-147 *)

DataHandler(u, body, new) ==
    [kind |-> "data", pc |-> "resync", uid |-> u, body |-> body, new |-> new,
     before |-> {r \in csecs_cache : r.uid = u},
     live |-> liveNs,
     quiet |-> NoWatcher, pre |-> Snapshot(u),
     again |-> Redelivery("data", u, body),
     syncedns |-> body.syncedns, secret_type |-> SecretType(body),
     todo |-> body.syncedns, ups |-> {}, dels |-> {}]

\* lines 118-121: kopf calls the handler with old = None; it returns at once.
DataFirst(u) ==
    /\ CanBegin /\ UidFree(u)
    /\ csecs[u].state = "live"
    /\ events' = events + 1
    /\ last' = [DataHandler(u, BodyOf(u), csecs[u].data) EXCEPT !.pc = "first"]
    /\ UNCHANGED <<liveNs, pendingNs, nsStatus, csecs, secrets, csecs_cache, loop, thr,
                   started>>

\* data of an existing ClusterSecret is changed; lines 124-126.
DataEvent(u, d) ==
    /\ CanBegin /\ UidFree(u)
    /\ csecs[u].state = "live"
    /\ d # csecs[u].data
    /\ csecs' = [csecs EXCEPT ![u].data = d]
    /\ thr' = [thr EXCEPT ![u] = DataHandler(u, BodyOf(u)', d)]
    /\ events' = events + 1
    /\ last' = NoLast
    /\ UNCHANGED <<liveNs, pendingNs, nsStatus, secrets, csecs_cache, loop, started>>

\* kopf calls the handler again for the same change (re-delivery).
DataRedeliver(u) ==
    /\ CanBegin /\ UidFree(u)
    /\ csecs[u].state = "live"
    /\ thr' = [thr EXCEPT ![u] = DataHandler(u, BodyOf(u), csecs[u].data)]
    /\ events' = events + 1
    /\ last' = NoLast
    /\ UNCHANGED <<liveNs, pendingNs, nsStatus, csecs, secrets, csecs_cache, loop, started>>

\* replace_namespaced_secret or create_namespaced_secret raises.
DataFail(u) ==
    /\ thr[u].kind = "data" /\ thr[u].pc = "resync" /\ thr[u].todo # {}
    /\ thr' = [thr EXCEPT ![u] = Idle]
    /\ last' = [thr[u] EXCEPT !.pc = "failed"]
    /\ UNCHANGED <<liveNs, pendingNs, nsStatus, csecs, secrets, csecs_cache, loop,
                   started, events>>

\* lines 128-147: one iteration
DataResync(u, ns) ==
    /\ thr[u].kind = "data" /\ thr[u].pc = "resync"
    /\ ns \in thr[u].todo
    /\ secrets' = ReplaceOrCreate(secrets, ns, thr[u].body.name, thr[u].new,
                                  thr[u].secret_type)
    /\ thr' = [thr EXCEPT ![u].todo = @ \ {ns}, ![u].ups = @ \cup {ns}]
    /\ last' = NoLast
    /\ UNCHANGED <<liveNs, pendingNs, nsStatus, csecs, csecs_cache, loop, started, events>>

DataReturn(u) ==
    /\ thr[u].kind = "data" /\ thr[u].pc = "resync"
    /\ thr[u].todo = {}
    /\ thr' = [thr EXCEPT ![u] = Idle]
    /\ last' = [thr[u] EXCEPT !.pc = "done"]
    /\ UNCHANGED <<liveNs, pendingNs, nsStatus, csecs, secrets, csecs_cache, loop, started, events>>

----------------------------------------------------------------------------
(* on_delete, handlers.py:29-48 *)

DeleteHandler(u, body) ==
    [kind |-> "delete", pc |-> "delete", uid |-> u, body |-> body,
     live |-> liveNs, alone |-> NoneInFlight /\ pendingNs = {},
     quiet |-> NoWatcher, pre |-> Snapshot(u),
     again |-> Redelivery("delete", u, body),
     syncedns |-> body.syncedns, todo |-> body.syncedns,
     found |-> FALSE, ups |-> {}, dels |-> {}]

\* An existing ClusterSecret is deleted; line 37.
DeleteEvent(u) ==
    /\ CanBegin /\ UidFree(u)
    /\ csecs[u].state \in {"live", "deleting"}
    /\ csecs' = [csecs EXCEPT ![u].state = "deleting"]
    /\ thr' = [thr EXCEPT ![u] = DeleteHandler(u, BodyOf(u))]
    /\ events' = events + 1
    /\ last' = NoLast
    /\ UNCHANGED <<liveNs, pendingNs, nsStatus, secrets, csecs_cache, loop, started>>

\* kopf calls on_delete again for a resource already handled (re-delivery).
DeleteRedeliver(u) ==
    /\ CanBegin /\ UidFree(u)
    /\ csecs[u].state = "gone"
    /\ thr' = [thr EXCEPT ![u] = DeleteHandler(u, BodyOf(u))]
    /\ events' = events + 1
    /\ last' = NoLast
    /\ UNCHANGED <<liveNs, pendingNs, nsStatus, csecs, secrets, csecs_cache, loop, started>>

\* delete_secret raises: the handler ends in error, the resource stays.
DeleteFail(u) ==
    /\ thr[u].kind = "delete" /\ thr[u].pc = "delete" /\ thr[u].todo # {}
    /\ thr' = [thr EXCEPT ![u] = Idle]
    /\ last' = [thr[u] EXCEPT !.pc = "failed"]
    /\ UNCHANGED <<liveNs, pendingNs, nsStatus, csecs, secrets, csecs_cache, loop,
                   started, events>>

\* lines 38-40: one iteration
DeleteSecret(u, ns) ==
    /\ thr[u].kind = "delete" /\ thr[u].pc = "delete"
    /\ ns \in thr[u].todo
    /\ secrets' = delete_secret(secrets, ns, thr[u].body.name)
    /\ thr' = [thr EXCEPT ![u].todo = @ \ {ns}, ![u].dels = @ \cup {ns}]
    /\ last' = NoLast
    /\ UNCHANGED <<liveNs, pendingNs, nsStatus, csecs, csecs_cache, loop, started, events>>

\* lines 42-48 as they would be without the except clause: the KeyError of a
\* uid the cache does not hold ends the handler in error.
DeleteCacheStrict(u) ==
    /\ thr[u].kind = "delete" /\ thr[u].pc = "delete"
    /\ thr[u].todo = {}
    /\ csecs_cache' = remove_cluster_secret(csecs_cache, u)
    /\ csecs' = IF has_cluster_secret(csecs_cache, u)
                THEN [csecs EXCEPT ![u].state = "gone"]
                ELSE csecs
    /\ thr' = [thr EXCEPT ![u] = Idle]
    /\ last' = [thr[u] EXCEPT !.pc = IF has_cluster_secret(csecs_cache, u)
                                     THEN "done" ELSE "failed",
                               !.found = has_cluster_secret(csecs_cache, u)]
    /\ UNCHANGED <<liveNs, pendingNs, nsStatus, secrets, loop, started, events>>

\* lines 42-48: remove from the cache (KeyError: return); the handler has
\* succeeded either way, kopf drops its finalizer and the resource is gone.
DeleteCache(u) ==
    /\ thr[u].kind = "delete" /\ thr[u].pc = "delete"
    /\ thr[u].todo = {}
    /\ csecs_cache' = IF has_cluster_secret(csecs_cache, u)
                      THEN remove_cluster_secret(csecs_cache, u)
                      ELSE csecs_cache
    /\ csecs' = [csecs EXCEPT ![u].state = "gone"]
    /\ thr' = [thr EXCEPT ![u] = Idle]
    /\ last' = [thr[u] EXCEPT !.pc = "done",
                               !.found = has_cluster_secret(csecs_cache, u)]
    /\ UNCHANGED <<liveNs, pendingNs, nsStatus, secrets, loop, started, events>>

----------------------------------------------------------------------------
(* namespace_watcher, handlers.py:186-216 *)

\* A namespace is created in the cluster.
NamespaceCreated(n) ==
    /\ n \notin liveNs
    /\ liveNs' = liveNs \cup {n}
    /\ pendingNs' = pendingNs \cup {n}
    /\ last' = NoLast
    /\ UNCHANGED <<nsStatus, csecs, secrets, csecs_cache, loop, thr, started, events>>

\* lines 190-193: kopf calls the handler; the loop takes all_cluster_secret().
WatcherBegin(n) ==
    /\ CanBegin /\ loop.pc = "idle"
    /\ n \in pendingNs
    /\ pendingNs' = pendingNs \ {n}
    /\ loop' = [kind |-> "nswatch", pc |-> "next", new_ns |-> n,
                before |-> csecs_cache,
                payloads |-> [u \in UIDs |-> csecs[u].data],
                alone |-> \A u \in UIDs : thr[u] = Idle,
                snap |-> all_cluster_secret(csecs_cache),
                cur |-> {}, ns_new_list |-> {}, ups |-> {}, dels |-> {}]
    /\ events' = events + 1
    /\ last' = NoLast
    /\ UNCHANGED <<liveNs, nsStatus, csecs, secrets, csecs_cache, thr, started>>

\* sync_secret raises at lines 204-209: the handler ends in error and kopf
\* will call it again for the namespace.
WatcherFail(u) ==
    /\ loop.kind = "nswatch" /\ loop.pc = "next"
    /\ \E r \in loop.snap :
        /\ r.uid = u
        /\ loop.new_ns \in get_ns_list(r.body, liveNs)
    /\ pendingNs' = pendingNs \cup {loop.new_ns}
    /\ loop' = Idle
    /\ last' = [loop EXCEPT !.pc = "failed"]
    /\ UNCHANGED <<liveNs, nsStatus, csecs, secrets, csecs_cache, thr, started, events>>

\* lines 194-202, new_ns not in ns_new_list: next record.
WatcherSkip(u) ==
    /\ loop.kind = "nswatch" /\ loop.pc = "next"
    /\ \E r \in loop.snap :
        /\ r.uid = u
        /\ loop.new_ns \notin get_ns_list(r.body, liveNs)
        /\ loop' = [loop EXCEPT !.snap = @ \ {r},
                                !.ns_new_list = get_ns_list(r.body, liveNs)]
    /\ last' = NoLast
    /\ UNCHANGED <<liveNs, pendingNs, nsStatus, csecs, secrets, csecs_cache, thr,
                   started, events>>

\* lines 194-209, new_ns in ns_new_list: sync the cached body into new_ns.
WatcherSync(u) ==
    /\ loop.kind = "nswatch" /\ loop.pc = "next"
    /\ \E r \in loop.snap :
        /\ r.uid = u
        /\ loop.new_ns \in get_ns_list(r.body, liveNs)
        /\ secrets' = sync_secret(secrets, loop.new_ns, r.body)
        /\ loop' = [loop EXCEPT !.pc = "set", !.snap = @ \ {r}, !.cur = {r},
                                !.ns_new_list = get_ns_list(r.body, liveNs),
                                !.ups = @ \cup {r.uid}]
    /\ last' = NoLast
    /\ UNCHANGED <<liveNs, pendingNs, nsStatus, csecs, csecs_cache, thr, started, events>>

\* lines 211-213: the list goes to the record's `namespace`, then set.
WatcherRecord(r, ns_new_list) == [r EXCEPT !.namespace = List(ns_new_list)]

WatcherSet ==
    /\ loop.kind = "nswatch" /\ loop.pc = "set"
    /\ \E r \in loop.cur :
          csecs_cache' = set_cluster_secret(csecs_cache,
                                            WatcherRecord(r, loop.ns_new_list))
    /\ loop' = [loop EXCEPT !.pc = "next", !.cur = {}]
    /\ last' = NoLast
    /\ UNCHANGED <<liveNs, pendingNs, nsStatus, csecs, secrets, thr, started, events>>

\* line 216: kopf stores the result as status.namespace_watcher of the namespace.
WatcherReturn ==
    /\ loop.kind = "nswatch" /\ loop.pc = "next"
    /\ loop.snap = {}
    /\ nsStatus' = [nsStatus EXCEPT ![loop.new_ns] =
                        [set |-> TRUE, syncedns |-> loop.ns_new_list]]
    /\ loop' = Idle
    /\ last' = [loop EXCEPT !.pc = "done"]
    /\ UNCHANGED <<liveNs, pendingNs, csecs, secrets, csecs_cache, thr, started, events>>

----------------------------------------------------------------------------

Next ==
    \/ StartupFn
    \/ Restart
    \/ \E u \in UIDs, m \in MatchSpecs, d \in InitialPayloads : CreateEvent(u, m, d)
    \/ \E u \in UIDs : ResumeEvent(u)
    \/ \E ns \in Namespaces : CreateSync(ns)
    \/ CreateFail
    \/ CreateCache
    \/ CreateReturn
    \/ \E u \in UIDs, m \in MatchSpecs : MatchEvent(u, m)
    \/ \E u \in UIDs : MatchRedeliver(u)
    \/ \E u \in UIDs : MatchFirst(u)
    \/ \E u \in UIDs : MatchFail(u)
    \/ \E u \in UIDs, ns \in Namespaces : MatchAdd(u, ns)
    \/ \E u \in UIDs, ns \in Namespaces : MatchRemove(u, ns)
    \/ \E u \in UIDs : MatchCache(u)
    \/ \E u \in UIDs : MatchPatch(u)
    \/ \E u \in UIDs, d \in Payloads : DataEvent(u, d)
    \/ \E u \in UIDs : DataRedeliver(u)
    \/ \E u \in UIDs : DataFirst(u)
    \/ \E u \in UIDs : DataFail(u)
    \/ \E u \in UIDs, ns \in Namespaces : DataResync(u, ns)
    \/ \E u \in UIDs : DataReturn(u)
    \/ \E u \in UIDs : DeleteEvent(u)
    \/ \E u \in UIDs : DeleteRedeliver(u)
    \/ \E u \in UIDs : DeleteFail(u)
    \/ \E u \in UIDs, ns \in Namespaces : DeleteSecret(u, ns)
    \/ \E u \in UIDs : DeleteCache(u)
    \/ \E n \in Namespaces : NamespaceCreated(n)
    \/ \E n \in Namespaces : WatcherBegin(n)
    \/ \E u \in UIDs : WatcherFail(u)
    \/ \E u \in UIDs : WatcherSkip(u)
    \/ \E u \in UIDs : WatcherSync(u)
    \/ WatcherSet
    \/ WatcherReturn

Spec == Init /\ [][Next]_vars

----------------------------------------------------------------------------
(* Runs of create/resume, match-rule-change and namespace-created events in *)
(* which every handler call succeeds.                                       *)

SyncEvents ==
    \/ StartupFn
    \/ \E u \in UIDs, m \in MatchSpecs, d \in InitialPayloads : CreateEvent(u, m, d)
    \/ \E u \in UIDs : ResumeEvent(u)
    \/ \E ns \in Namespaces : CreateSync(ns)
    \/ CreateCache
    \/ CreateReturn
    \/ \E u \in UIDs, m \in MatchSpecs : MatchEvent(u, m)
    \/ \E u \in UIDs, ns \in Namespaces : MatchAdd(u, ns)
    \/ \E u \in UIDs, ns \in Namespaces : MatchRemove(u, ns)
    \/ \E u \in UIDs : MatchCache(u)
    \/ \E u \in UIDs : MatchPatch(u)
    \/ \E n \in Namespaces : NamespaceCreated(n)
    \/ \E n \in Namespaces : WatcherBegin(n)
    \/ \E u \in UIDs : WatcherSkip(u)
    \/ \E u \in UIDs : WatcherSync(u)
    \/ WatcherSet
    \/ WatcherReturn

SpecSync == Init /\ [][SyncEvents]_vars

\* The same with payload changes.
DataEvents ==
    \/ \E u \in UIDs, d \in Payloads : DataEvent(u, d)
    \/ \E u \in UIDs, ns \in Namespaces : DataResync(u, ns)
    \/ \E u \in UIDs : DataReturn(u)

SyncDataEvents == SyncEvents \/ DataEvents

SpecSyncData == Init /\ [][SyncDataEvents]_vars

\* The same with deletion of the source resource.
DeleteEvents ==
    \/ \E u \in UIDs : DeleteEvent(u)
    \/ \E u \in UIDs, ns \in Namespaces : DeleteSecret(u, ns)
    \/ \E u \in UIDs : DeleteCache(u)

SyncDeleteEvents == SyncEvents \/ DeleteEvents

SpecSyncDelete == Init /\ [][SyncDeleteEvents]_vars

\* Every event, re-delivery and restart, every handler call succeeding.
OkEvents ==
    \/ SyncDataEvents
    \/ DeleteEvents
    \/ Restart
    \/ \E u \in UIDs : MatchRedeliver(u)
    \/ \E u \in UIDs : DataRedeliver(u)
    \/ \E u \in UIDs : DeleteRedeliver(u)

SpecOk == Init /\ [][OkEvents]_vars

----------------------------------------------------------------------------
(* Properties *)

CacheRecords(u) == {r \in csecs_cache : r.uid = u}
Replicas(name) == {n \in Namespaces : secrets[<<n, name>>].exists}
Succeeded(kind) == last.kind = kind /\ last.pc = "done"

\* C1 (P1, convergence): after create/resume, match-rule-change and
\* namespace-created events that all succeeded, with no handler in flight and
\* no namespace event outstanding, every cache record's synced_namespace is
\* the Namespace Matcher's result for the record's match specification
\* against the namespaces that exist.
P1_Convergence ==
    (Quiescent /\ pendingNs = {}) =>
        \A r \in csecs_cache : r.synced_namespace = get_ns_list(r.body, liveNs)

\* C2 (I1): with no handler in flight, every cache record's synced_namespace
\* is exactly the set of namespaces that hold a replica of that secret.
I1_SyncedIsReplicaSet ==
    Quiescent => \A r \in csecs_cache : r.synced_namespace = Replicas(r.name)

\* C3 (P6, delete cascade): when on_delete, called after the earlier events
\* have been handled and with nothing else running or arriving meanwhile, has
\* completed, no namespace holds a replica of the deleted secret and the
\* cache has no record for its uid.
P6_DeleteCascade ==
    (Succeeded("delete") /\ last.alone /\ last.live = liveNs /\ NoneInFlight) =>
        /\ Replicas(last.body.name) = {}
        /\ CacheRecords(last.uid) = {}

\* C4 (P5, set-diff correctness): when on_field_match_namespace has completed
\* with synced set S and resolved target set T, it has upserted exactly
\* T \ S, deleted exactly S \ T, touched nothing in S \cap T, and the cache
\* record's synced_namespace and the persisted status are T.
P5_SetDiff ==
    Succeeded("match") =>
        LET S == last.body.syncedns
            T == get_ns_list(last.body, last.live)
        IN  /\ last.ups = T \ S
            /\ last.dels = S \ T
            /\ (last.ups \cup last.dels) \cap (S \cap T) = {}
            /\ CacheRecords(last.uid) # {}
            /\ \A r \in CacheRecords(last.uid) : r.synced_namespace = T
            /\ csecs[last.uid].hasStatus
            /\ csecs[last.uid].syncedns = T

\* C5 (create/resume post-state): when create_fn has completed for a resource
\* whose match specification resolves to T, it has upserted exactly T, every
\* namespace of T holds the replica, the cache holds one record for the uid
\* with synced_namespace T, and the persisted status synced set is T.
CreatePostState ==
    Succeeded("create") =>
        LET T == get_ns_list(last.body, last.live)
        IN  /\ last.ups = T
            /\ \A n \in T : secrets[<<n, last.body.name>>] =
                    [exists |-> TRUE, data |-> last.body.data,
                     type |-> SecretType(last.body)]
            /\ Cardinality(CacheRecords(last.uid)) = 1
            /\ \A r \in CacheRecords(last.uid) : r.synced_namespace = T
            /\ csecs[last.uid].hasStatus
            /\ csecs[last.uid].syncedns = T

\* C6 (namespace-created post-state): when namespace_watcher has completed for
\* namespace N, every record it found whose match specification matches N has
\* a replica in N and synced_namespace S \cup {N}; for every other record no
\* upsert was issued and the record is unchanged.
NamespaceCreatedPostState ==
    Succeeded("nswatch") =>
        \A r \in last.before :
            IF last.new_ns \in get_ns_list(r.body, liveNs)
            THEN /\ secrets[<<last.new_ns, r.name>>].exists
                 /\ \A c \in CacheRecords(r.uid) :
                        c.synced_namespace = r.synced_namespace \cup {last.new_ns}
            ELSE /\ r.uid \notin last.ups
                 /\ r \in csecs_cache

\* C7 (payload change): when on_field_data has completed, every namespace of
\* the record's synced set S holds a replica with the new payload and the
\* resource's secret type, nothing was deleted, nothing was written outside
\* S, and the record's synced_namespace and the persisted status are as
\* before.
PayloadChangePostState ==
    Succeeded("data") =>
        \A b \in last.before :
            LET S == b.synced_namespace
            IN  /\ \A n \in S : secrets[<<n, last.body.name>>] =
                        [exists |-> TRUE, data |-> last.new,
                         type |-> SecretType(last.body)]
                /\ last.dels = {}
                /\ last.ups \subseteq S
                /\ \A r \in CacheRecords(last.uid) : r.synced_namespace = S
                /\ csecs[last.uid].syncedns = last.body.syncedns

\* C8 (I2): after a handler invocation or the startup bootstrap has completed,
\* with nothing else in flight, the persisted status synced set of every
\* cached uid equals the record's synced_namespace.
I2_StatusEqualsCache ==
    (last.pc = "done" /\ NoneInFlight) =>
        \A r \in csecs_cache : csecs[r.uid].syncedns = r.synced_namespace

\* C9 (startup bootstrap): when startup_fn has completed, the cache holds
\* exactly one record for each existing resource, with synced_namespace the
\* synced set persisted in its status, or empty if it has none.
Existing == {u \in UIDs : csecs[u].state \in {"live", "deleting"}}
BootstrapPostState ==
    Succeeded("startup") =>
        /\ {r.uid : r \in csecs_cache} = Existing
        /\ \A u \in Existing :
              /\ Cardinality(CacheRecords(u)) = 1
              /\ \A r \in CacheRecords(u) :
                    r.synced_namespace =
                        IF csecs[u].hasStatus THEN csecs[u].syncedns ELSE {}

\* C10 (P4, no double-create): the cache never holds two records for a uid;
\* and when create_fn has completed for a uid that already had a record, the
\* cache holds exactly one record for it and every target namespace holds
\* the replica.
P4_NoDoubleCreate ==
    /\ \A u \in UIDs : Cardinality(CacheRecords(u)) <= 1
    /\ (Succeeded("create") /\ last.known) =>
          /\ Cardinality(CacheRecords(last.uid)) = 1
          /\ \A n \in last.matchedns : secrets[<<n, last.body.name>>].exists

\* create_fn has completed for a resource matching two live namespaces.
CreatePostStateWitness ==
    Succeeded("create") /\ Cardinality(last.ups) = 2

\* create_fn has completed for a uid the cache already held a record of, with
\* a target namespace to sync.
P4_NoDoubleCreateWitness ==
    Succeeded("create") /\ last.known /\ last.matchedns # {}

UnknownIdentityProceeds ==
    /\ (Succeeded("create") /\ ~last.known) =>
            LET T == get_ns_list(last.body, last.live)
            IN  /\ last.ups = T /\ last.dels = {}
                /\ CacheRecords(last.uid) # {}
                /\ \A r \in CacheRecords(last.uid) : r.synced_namespace = T
    /\ (Succeeded("match") /\ ~last.known) =>
            LET S == last.body.syncedns
                T == get_ns_list(last.body, last.live)
            IN  /\ last.ups = T \ S /\ last.dels = S \ T
                /\ CacheRecords(last.uid) # {}
                /\ \A r \in CacheRecords(last.uid) : r.synced_namespace = T

\* on_field_match_namespace has completed for a uid the cache did not hold,
\* having synced a namespace.
UnknownIdentityProceedsWitness ==
    Succeeded("match") /\ ~last.known /\ last.ups # {}

\* C13 (write errors are surfaced): an invocation in which a write failed has
\* ended, in failure, at that write; and an invocation that ended in success
\* has performed every write it was due: every upsert, every delete and the
\* status it records.
WriteErrorsSurfaced ==
    /\ last.pc = "failed" =>
            IF last.kind \in {"create", "nswatch"}
            THEN loop = Idle
            ELSE thr[last.uid] = Idle
    /\ Succeeded("create") =>
            /\ last.ups = last.matchedns
            /\ csecs[last.uid].syncedns = last.matchedns
    /\ Succeeded("match") =>
            /\ last.ups = last.updated_matched \ last.syncedns
            /\ last.dels = last.syncedns \ last.updated_matched
            /\ csecs[last.uid].syncedns = last.updated_matched
    /\ Succeeded("data") => last.ups = last.syncedns
    /\ Succeeded("delete") => last.dels = last.syncedns
    /\ Succeeded("nswatch") =>
            \A r \in last.before :
                last.new_ns \in r.body.matchNamespace => r.uid \in last.ups

\* on_field_match_namespace has ended in failure after a write that succeeded.
WriteErrorsSurfacedWitness ==
    last.pc = "failed" /\ last.kind = "match" /\ last.ups # {}

\* C14 (re-delivery is safe): when a handler has completed the event it had
\* already completed just before (same body, no namespace created and no
\* namespace_watcher running meanwhile), the replicas of the secret, their
\* payloads, the cache record and the persisted status are what they were
\* after the first completion; and a re-delivered on_delete that has gone
\* through its loop ends in success, though the replicas and the cache
\* record are already gone.
RedeliveryIsSafe ==
    /\ (last.kind \in {"create", "match", "data", "delete"} /\ last.pc = "done"
            /\ last.again /\ last.live = liveNs /\ NoWatcher) =>
            Snapshot(last.uid) = last.pre
    /\ (last.kind = "delete" /\ last.pc \in {"done", "failed"}
            /\ last.again /\ last.todo = {}) =>
            last.pc = "done"

\* on_delete has completed a second time for a resource whose replicas and
\* cache record its first run removed.
RedeliveryIsSafeWitness ==
    /\ Succeeded("delete") /\ last.again
    /\ last.syncedns # {} /\ ~last.found

\* C15 (record identity): every record in the cache carries the uid, the name
\* and the namespace of its source resource; its namespace is a string, the
\* namespace of the resource, never a namespace of a replica and never a list.
RecordIdentity ==
    \A r \in csecs_cache :
        /\ r.name = NameOf(r.uid)
        /\ ~r.namespace.isList
        /\ r.namespace.val = {OriginNs(r.uid)}

\* C16 (first observation is ignored): when on_field_match_namespace or
\* on_field_data has been called with old = None, it has returned having
\* issued no upsert, no delete and no status patch, and the replicas, the
\* cache record and the persisted status of the resource are as before.
FirstObservationIgnored ==
    (last.kind \in {"match", "data"} /\ last.pc = "first") =>
        /\ last.ups = {} /\ last.dels = {}
        /\ Snapshot(last.uid) = last.pre
        /\ thr[last.uid] = Idle

\* on_field_match_namespace has been called with old = None for a resource
\* whose match specification resolves to namespaces its status does not name.
FirstObservationIgnoredWitness ==
    /\ last.kind = "match" /\ last.pc = "first"
    /\ last.updated_matched # last.syncedns

\* While on_field_match_namespace runs, every namespace that the status
\* records and the target set keeps holds a replica. This needs the status
\* to be accurate when the handler starts: it holds as long as no handler
\* call has failed (SpecOk), not after a failed status patch (Spec).
KeptNamespacesHoldReplica ==
    \A u \in UIDs :
        thr[u].kind = "match" =>
            \A n \in thr[u].syncedns \cap thr[u].updated_matched :
                secrets[<<n, thr[u].body.name>>].exists

DeletionIsFinal ==
    /\ [](\A u \in UIDs : csecs[u].state = "gone" => CacheRecords(u) = {})
    /\ [][\A u \in UIDs, n \in Namespaces :
            (csecs[u].state = "gone" /\ ~secrets[<<n, NameOf(u)>>].exists) =>
                ~secrets'[<<n, NameOf(u)>>].exists]_vars

\* C19 (payload freshness): a replica that namespace_watcher writes for a
\* resource holds the resource's current payload, not a payload cached
\* before an on_field_data that has completed: here for a watcher called
\* with no other handler in flight, the payload unchanged since, and no
\* handler of the resource in flight at the write.
PayloadFreshness ==
    [][\A u \in UIDs :
        (/\ loop.kind = "nswatch" /\ loop.pc = "next" /\ loop'.pc = "set"
         /\ u \in loop'.ups \ loop.ups
         /\ csecs[u].state = "live" /\ thr[u] = Idle
         /\ loop.alone /\ loop.payloads[u] = csecs[u].data) =>
            secrets'[<<loop.new_ns, NameOf(u)>>].data = csecs[u].data]_vars

\* The cache record and the persisted status of a resource are those of the
\* snapshot.
RecordedAsIn(u, snap) ==
    /\ CacheRecords(u) = snap.cache
    /\ csecs[u].hasStatus = snap.hasStatus
    /\ csecs[u].syncedns = snap.syncedns

\* C20 (all-or-nothing recording): while create_fn or
\* on_field_match_namespace is in its batch loop, and when it has failed
\* there, the cache record and the persisted status of the resource are as
\* they were before the invocation, and the replicas already written
\* remain; on_field_match_namespace deletes only after all its upserts, and
\* writes the cache before it patches the status. (For the threaded handler:
\* with no namespace_watcher running meanwhile.)
AllOrNothingRecording ==
    /\ (loop.kind = "create" /\ loop.pc = "sync") =>
            RecordedAsIn(loop.uid, loop.pre)
    /\ (last.kind = "create" /\ last.pc = "failed") =>
            /\ RecordedAsIn(last.uid, last.pre)
            /\ \A n \in last.ups : secrets[<<n, last.body.name>>].exists
    /\ \A u \in UIDs : thr[u].kind = "match" =>
            /\ thr[u].dels # {} =>
                    thr[u].ups = thr[u].updated_matched \ thr[u].syncedns
            /\ (thr[u].quiet /\ thr[u].live = liveNs /\ NoWatcher) =>
                    IF thr[u].pc = "add"
                    THEN RecordedAsIn(u, thr[u].pre)
                    ELSE /\ csecs[u].hasStatus = thr[u].pre.hasStatus
                         /\ csecs[u].syncedns = thr[u].pre.syncedns
                         /\ \A r \in CacheRecords(u) :
                                r.synced_namespace = thr[u].updated_matched
                         /\ CacheRecords(u) # {}
    /\ (last.kind = "match" /\ last.pc = "failed"
            /\ last.to_add \cup last.to_remove # {}
            /\ last.quiet /\ last.live = liveNs /\ NoWatcher) =>
            /\ RecordedAsIn(last.uid, last.pre)
            /\ \A n \in last.ups : secrets[<<n, last.body.name>>].exists

\* on_field_match_namespace has failed in its loop after an upsert that
\* succeeded, with no namespace_watcher running meanwhile.
AllOrNothingRecordingWitness ==
    /\ last.kind = "match" /\ last.pc = "failed"
    /\ last.to_add \cup last.to_remove # {} /\ last.ups # {}
    /\ last.quiet /\ last.live = liveNs /\ NoWatcher

====
